---- MODULE Spec2Model ----
(***************************************************************************)
(* FoodInsight AI: the entry-processing pipeline of                        *)
(* scripts/food_analyzer.py (fetch -> extract -> analyze -> render ->      *)
(* write-back) and the score colouring of scripts/pdf_generator.py.        *)
(*                                                                         *)
(* A Notion page is modelled as its properties mapping: a function from    *)
(* property names to values.  A Python dict is a function whose DOMAIN is  *)
(* the set of keys present, and dict.get is the operator get.              *)
(***************************************************************************)
EXTENDS Integers, Sequences, FiniteSets, TLC

VARIABLES
    store,          \* the Notion database: page id -> properties of the page
    clock,          \* datetime.now(), a logical time
    pc,             \* position of main() / process_food_entry()
    results,        \* response.json()['results'] of the last store query
    entries,        \* the batch main() got from get_notion_database_items()
    idx,            \* position of the for-loop of main() in entries
    local,          \* locals of the running process_food_entry()
    trace,          \* per entry of the batch: the value process_food_entry returned
    success_count,  \* success_count of main()
    summary,        \* what main() logged at its end
    run,            \* number of the current invocation of main()
    response_text,  \* analyze_food_with_openai: the text of the model's answer
    parsed,         \* analyze_food_with_openai: outcome of the JSON extraction
    score,          \* generate_score_color: its argument
    score_color,    \* generate_score_color: its result
    wb_est,         \* write-back harness: the estimate that is written
    wb_count,       \* write-back harness: page id -> number of applied patches
    wb_once         \* write-back harness: page id -> the page after the first applied patch

vars == <<store, clock, pc, results, entries, idx, local, trace, success_count,
          summary, run, response_text, parsed, score, score_color, wb_est, wb_count, wb_once>>

pipelineVars == <<store, clock, pc, results, entries, idx, local, trace,
                  success_count, summary, run>>
parseVars == <<response_text, parsed>>
colorVars == <<score, score_color>>
harnessVars == <<wb_est, wb_count, wb_once>>

(***************************************************************************)
(* Bounds.                                                                 *)
(***************************************************************************)
NumRecords == 3
MaxTextLen == 5
MaxScore == 100
MaxCalls == 2
MaxRuns == 2

Ids == 1..NumRecords

(***************************************************************************)
(* Python values.                                                          *)
(***************************************************************************)
None == [none |-> TRUE]
EmptyDict == [k \in {} |-> 0]

get(d, k, default) == IF k \in DOMAIN d THEN d[k] ELSE default

Min(a, b) == IF a < b THEN a ELSE b

(***************************************************************************)
(* The model's answers: the JSON objects json.loads can return.            *)
(***************************************************************************)
NumericKeys == {"estimated_kcal", "protein_g", "carbs_g", "fat_g", "food_score"}

EstGood ==
    [food_name |-> "Dal", estimated_kcal |-> 300, protein_g |-> 12,
     carbs_g |-> 40, fat_g |-> 8, food_score |-> 72,
     ai_insight |-> "insight", healthy_tips |-> "tips"]

\* an answer with values out of range and without the key carbs_g
EstOutOfRange ==
    [food_name |-> "Dal", estimated_kcal |-> 300, protein_g |-> -5,
     fat_g |-> 8, food_score |-> 150,
     ai_insight |-> "insight", healthy_tips |-> "tips"]

Estimates == {EstGood, EstOutOfRange}

JsonObjects == Estimates \cup {EmptyDict}

(***************************************************************************)
(* The text of a model answer, as a sequence of tokens:                    *)
(*   "O"  a serialized JSON object {...} (it holds no backtick),           *)
(*   "F"  the fence ``` ,  "J"  the word json,                             *)
(*   "W"  whitespace,      "T"  any other text (no brace, no backtick).    *)
(* So the marker ```json is <<"F", "J">>.                                  *)
(***************************************************************************)
Tokens == {"O", "F", "J", "W", "T"}

Fence == <<"F">>
FenceJson == <<"F", "J">>

RECURSIVE lstrip(_)
lstrip(s) == IF s # <<>> /\ Head(s) = "W" THEN lstrip(Tail(s)) ELSE s

RECURSIVE rstrip(_)
rstrip(s) ==
    IF s # <<>> /\ s[Len(s)] = "W" THEN rstrip(SubSeq(s, 1, Len(s) - 1)) ELSE s

\* str.strip()
strip(s) == rstrip(lstrip(s))

MatchAt(s, sep, i) ==
    /\ i + Len(sep) - 1 <= Len(s)
    /\ SubSeq(s, i, i + Len(sep) - 1) = sep

\* sep in s
Contains(s, sep) == \E i \in 1..Len(s) : MatchAt(s, sep, i)

FirstIndex(s, sep) ==
    CHOOSE i \in 1..Len(s) :
        /\ MatchAt(s, sep, i)
        /\ \A j \in 1..(i - 1) : ~MatchAt(s, sep, j)

\* s.split(sep)[0]
SplitFirst(s, sep) ==
    IF Contains(s, sep) THEN SubSeq(s, 1, FirstIndex(s, sep) - 1) ELSE s

AfterFirst(s, sep) == SubSeq(s, FirstIndex(s, sep) + Len(sep), Len(s))

\* s.split(sep)[1], used only where sep in s
SplitSecond(s, sep) == SplitFirst(AfterFirst(s, sep), sep)

\* food_analyzer.py 201-205: the span that is handed to json.loads
ExtractJson(text) ==
    IF Contains(text, FenceJson)
    THEN SplitFirst(SplitSecond(text, FenceJson), Fence)
    ELSE IF Contains(text, Fence)
         THEN SplitFirst(SplitSecond(text, Fence), Fence)
         ELSE text

\* json.loads(s) followed by analysis.get(...): succeeds iff s is one JSON
\* object with nothing but whitespace around it
json_loads_ok(s) == strip(s) = <<"O">>

\* food_analyzer.py 198-216: does the answer parse to its object
ParseOk(content) == json_loads_ok(ExtractJson(strip(content)))

\* analyze_food_with_openai: the reply is a transport failure or a text that
\* carries the object obj in its "O" token
analyze_food_with_openai(reply) ==
    IF reply.error THEN None
    ELSE IF ParseOk(reply.text) THEN reply.obj ELSE None

(***************************************************************************)
(* The store.  A page is its properties mapping.  'Meal Photo' holds the   *)
(* list of file objects (here: their 'type'); 'AI Analysis Done' is absent *)
(* from a page that never had the checkbox.                                *)
(***************************************************************************)
PageSize == 10

NutritionProps ==
    {"Food Name", "KCal Count", "Protein (g)", "Carbs (g)", "Fat (g)",
     "Food Score", "AI Insight", "Healthy Tips"}

\* the payload of update_notion_entry, property name -> value
UpdatePayloadFlagOnly(analysis, now) ==
    [k \in {"AI Analysis Done"} |-> TRUE]

UpdatePayloadNoFlag(analysis, now) ==
    [k \in NutritionProps \cup {"Analysis DateTime"} |->
        CASE k = "Food Name" -> get(analysis, "food_name", "Unknown")
          [] k = "KCal Count" -> get(analysis, "estimated_kcal", 0)
          [] k = "Protein (g)" -> get(analysis, "protein_g", 0)
          [] k = "Carbs (g)" -> get(analysis, "carbs_g", 0)
          [] k = "Fat (g)" -> get(analysis, "fat_g", 0)
          [] k = "Food Score" -> get(analysis, "food_score", 0)
          [] k = "AI Insight" -> get(analysis, "ai_insight", "")
          [] k = "Healthy Tips" -> get(analysis, "healthy_tips", "")
          [] k = "Analysis DateTime" -> now]

UpdatePayload(analysis, now) ==
    [k \in NutritionProps \cup {"AI Analysis Done", "Analysis DateTime"} |->
        CASE k = "Food Name" -> get(analysis, "food_name", "Unknown")
          [] k = "AI Analysis Done" -> TRUE
          [] k = "KCal Count" -> get(analysis, "estimated_kcal", 0)
          [] k = "Protein (g)" -> get(analysis, "protein_g", 0)
          [] k = "Carbs (g)" -> get(analysis, "carbs_g", 0)
          [] k = "Fat (g)" -> get(analysis, "fat_g", 0)
          [] k = "Food Score" -> get(analysis, "food_score", 0)
          [] k = "AI Insight" -> get(analysis, "ai_insight", "")
          [] k = "Healthy Tips" -> get(analysis, "healthy_tips", "")
          [] k = "Analysis DateTime" -> now]

\* PATCH /v1/pages/{id}: the store replaces the properties the payload names
PatchAccumulate(page, payload) ==
    [k \in DOMAIN page \cup DOMAIN payload |->
        IF k \notin DOMAIN payload THEN page[k]
        ELSE IF k = "KCal Count" /\ k \in DOMAIN page THEN page[k] + payload[k]
        ELSE payload[k]]

Patch(page, payload) ==
    [k \in DOMAIN page \cup DOMAIN payload |->
        IF k \in DOMAIN payload THEN payload[k] ELSE page[k]]

\* what update_notion_entry does to the page, by the outcome of the request:
\*   "ok"     the store applied the patch and answered 200,
\*   "error"  the store refused or was not reached: nothing applied,
\*   "lost"   the store applied the patch, the answer did not arrive
UpdateOutcomes == {"ok", "error", "lost"}

PageAfterUpdate(page, analysis, now, outcome) ==
    IF outcome \in {"ok", "lost"}
    THEN Patch(page, UpdatePayload(analysis, now))
    ELSE page

\* the value update_notion_entry returns
update_notion_entry(outcome) == outcome = "ok"

PendingPage(files) ==
    [k \in {"Meal Photo", "AI Analysis Done"} |->
        IF k = "Meal Photo" THEN files ELSE FALSE]

NoFlagPage(files) == [k \in {"Meal Photo"} |-> files]

\* a page an earlier run has written back
DonePage == Patch(PendingPage(<<"file">>), UpdatePayload(EstGood, 0))

\* the pages a database holds before a run: pending without photo, pending
\* with an uploaded photo, without the checkbox and with an external photo
\* link, or written back by an earlier run
InitPages ==
    {PendingPage(<<>>), PendingPage(<<"file">>),
     NoFlagPage(<<"external">>), DonePage}

IsChecked(properties) ==
    /\ "AI Analysis Done" \in DOMAIN properties
    /\ properties["AI Analysis Done"]

Entry(id) == [id |-> id, properties |-> store[id]]

\* the answer of POST /v1/databases/{id}/query with page_size 10
QueryResults ==
    [i \in 1..Min(Cardinality(DOMAIN store), PageSize) |-> Entry(i)]

\* food_analyzer.py 71-83: the local filter
UnanalyzedNoFilter(res) == res

Unanalyzed(res) ==
    SelectSeq(res, LAMBDA entry :
        IF "AI Analysis Done" \in DOMAIN entry.properties
        THEN ~entry.properties["AI Analysis Done"]
        ELSE TRUE)

\* get_notion_database_items: ok = the query answered without error
get_notion_database_items_unguarded(ok) == Unanalyzed(QueryResults)

get_notion_database_items(ok) == IF ok THEN Unanalyzed(QueryResults) ELSE <<>>

\* extract_image_from_notion_entry; dl is what download_image_from_notion
\* gives when it is called: "bytes", "empty" (b'') or "None" (request failed)
DownloadOutcomes == {"bytes", "empty", "None"}

extract_image_always(entry, dl) == dl

extract_image_from_notion_entry(entry, dl) ==
    LET files == entry.properties["Meal Photo"] IN
    IF files = <<>> THEN "None"
    ELSE IF files[1] = "file" THEN dl
    ELSE "None"

\* truth value of image_data / pdf_data (bytes or None)
TruthyBytesAlways(v) == TRUE

TruthyBytes(v) == v \notin {"None", "empty"}

\* truth value of analysis (dict or None)
TruthyDict(d) == d # None /\ d # EmptyDict

(***************************************************************************)
(* main() and process_food_entry(), one action per step of the code.       *)
(***************************************************************************)
SampleTexts ==
    { <<"O">>,
      <<"F", "J", "W", "O", "W", "F">>,
      <<"T", "W", "F", "J", "W", "O", "W", "F", "W", "T">>,
      <<"F", "W", "O", "W", "F">>,
      <<"T", "W", "O", "W", "T">>,
      <<"T">> }

Replies ==
    {[error |-> TRUE, text |-> <<>>, obj |-> EmptyDict]}
    \cup [error : {FALSE}, text : SampleTexts, obj : JsonObjects]

RenderOutcomes == {"doc", "none", "raise"}

SaveOutcomes == {"ok", "oserror"}

NoLocal ==
    [image_data |-> "None", analysis |-> None, render |-> "not_run",
     pdf_data |-> "None", wb |-> "not_called", wb_arg |-> None,
     saved |-> FALSE, ret |-> FALSE, stage |-> "running"]

NoSummary == [msg |-> "none", succeeded |-> 0, total |-> 0]

\* main(), 364-370: fetch the batch
Fetch(ok) ==
    /\ pc = "main"
    /\ results' = IF ok THEN QueryResults ELSE <<>>
    /\ entries' = get_notion_database_items(ok)
    /\ IF entries' = <<>>
       THEN /\ pc' = "done"
            /\ summary' = [msg |-> "No new entries to process",
                           succeeded |-> 0, total |-> 0]
            /\ idx' = 0
       ELSE /\ pc' = "extract"
            /\ summary' = NoSummary
            /\ idx' = 1
    /\ success_count' = 0
    /\ trace' = <<>>
    /\ local' = NoLocal
    /\ UNCHANGED <<store, clock, run>>
    /\ UNCHANGED <<parseVars, colorVars, harnessVars>>

\* main(), 359-362: a required environment variable is missing
Refuse ==
    /\ pc = "main"
    /\ pc' = "exit"
    /\ UNCHANGED <<store, clock, results, entries, idx, local, trace,
                   success_count, summary, run>>
    /\ UNCHANGED <<parseVars, colorVars, harnessVars>>

\* the exit status of the process, by the place main() ended at; -1 while
\* it runs
ExitCodeOf(at) == IF at = "exit" THEN 1 ELSE IF at = "done" THEN 0 ELSE -1

\* the timeout, in seconds, each external call is made with; 0 stands for a
\* call made without a timeout argument, which waits without limit
Timeout == [query |-> 0, download |-> 10, model |-> 30, patch |-> 0]

\* the step of the run that makes the call
CallSite ==
    [query |-> "main", download |-> "extract", model |-> "analyze",
     patch |-> "update"]

\* the service never answers a call that has no timeout: the run waits
\* forever (a call with a timeout ends as a failed request instead)
Block(call) ==
    /\ Timeout[call] = 0
    /\ pc = CallSite[call]
    /\ pc' = "blocked"
    /\ UNCHANGED <<store, clock, results, entries, idx, local, trace,
                   success_count, summary, run>>
    /\ UNCHANGED <<parseVars, colorVars, harnessVars>>

\* process_food_entry, step 1 (310-314)
Extract(dl) ==
    /\ pc = "extract"
    /\ LET image_data == extract_image_from_notion_entry(entries[idx], dl) IN
       IF ~TruthyBytes(image_data)
       THEN /\ local' = [NoLocal EXCEPT !.image_data = image_data,
                                        !.ret = FALSE, !.stage = "no_image"]
            /\ pc' = "return"
       ELSE /\ local' = [NoLocal EXCEPT !.image_data = image_data]
            /\ pc' = "analyze"
    /\ clock' = clock + 1
    /\ UNCHANGED <<store, results, entries, idx, trace, success_count, summary, run>>
    /\ UNCHANGED <<parseVars, colorVars, harnessVars>>

\* process_food_entry, step 2 (316-320)
Analyze(reply) ==
    /\ pc = "analyze"
    /\ LET analysis == analyze_food_with_openai(reply) IN
       IF ~TruthyDict(analysis)
       THEN /\ local' = [local EXCEPT !.analysis = analysis,
                                      !.ret = FALSE, !.stage = "no_analysis"]
            /\ pc' = "return"
       ELSE /\ local' = [local EXCEPT !.analysis = analysis]
            /\ pc' = "render"
    /\ UNCHANGED <<store, clock, results, entries, idx, trace, success_count, summary, run>>
    /\ UNCHANGED <<parseVars, colorVars, harnessVars>>

\* the pdf_data process_food_entry holds after step 3
PdfData(outcome) == IF outcome = "doc" THEN "pdf" ELSE "None"

\* where process_food_entry goes after step 3 (323-334)
AfterRenderStrict(outcome) == IF outcome = "doc" THEN "update" ELSE "return"

AfterRender(outcome) == "update"

\* process_food_entry, step 3 (322-331)
Render(outcome) ==
    /\ pc = "render"
    /\ local' = [local EXCEPT !.render = outcome, !.pdf_data = PdfData(outcome)]
    /\ pc' = AfterRender(outcome)
    /\ UNCHANGED <<store, clock, results, entries, idx, trace, success_count, summary, run>>
    /\ UNCHANGED <<parseVars, colorVars, harnessVars>>

\* process_food_entry, step 4 (333-336, 348)
Update(outcome) ==
    /\ pc = "update"
    /\ LET entry_id == entries[idx].id
           success == update_notion_entry(outcome)
       IN /\ store' = [store EXCEPT ![entry_id] =
                          PageAfterUpdate(@, local.analysis, clock, outcome)]
          /\ IF success /\ TruthyBytes(local.pdf_data)
             THEN /\ local' = [local EXCEPT !.wb = outcome,
                                            !.wb_arg = local.analysis]
                  /\ pc' = "save"
             ELSE /\ local' = [local EXCEPT !.wb = outcome,
                                            !.wb_arg = local.analysis,
                                            !.ret = success, !.stage = "updated"]
                  /\ pc' = "return"
    /\ UNCHANGED <<clock, results, entries, idx, trace, success_count, summary, run>>
    /\ UNCHANGED <<parseVars, colorVars, harnessVars>>

\* where process_food_entry goes from the artifact step: it returns success
\* (348) or the handler of 350-352 returns False
AfterSaveUncaught(outcome) == IF outcome = "ok" THEN "return" ELSE "raised"

AfterSave(outcome) == "return"

\* process_food_entry, saving the artifact (337-348, 350-352)
Save(outcome) ==
    /\ pc = "save"
    /\ IF outcome = "ok"
       THEN local' = [local EXCEPT !.saved = TRUE, !.ret = TRUE,
                                   !.stage = "updated"]
       ELSE local' = [local EXCEPT !.ret = FALSE, !.stage = "except"]
    /\ pc' = AfterSave(outcome)
    /\ UNCHANGED <<store, clock, results, entries, idx, trace, success_count, summary, run>>
    /\ UNCHANGED <<parseVars, colorVars, harnessVars>>

\* main(), 374-378: the loop takes the value process_food_entry returned
Return ==
    /\ pc = "return"
    /\ trace' = Append(trace, [id |-> entries[idx].id, ret |-> local.ret,
                               stage |-> local.stage])
    /\ success_count' = IF local.ret THEN success_count + 1 ELSE success_count
    /\ local' = NoLocal
    /\ IF idx < Len(entries)
       THEN /\ idx' = idx + 1
            /\ pc' = "extract"
            /\ summary' = summary
       ELSE /\ idx' = idx
            /\ pc' = "done"
            /\ summary' = [msg |-> "Processing complete",
                           succeeded |-> success_count', total |-> Len(entries)]
    /\ UNCHANGED <<store, clock, results, entries, run>>
    /\ UNCHANGED <<parseVars, colorVars, harnessVars>>

\* the scheduler invokes main() again (a new process: nothing but the store
\* survives)
NextRun ==
    /\ pc = "done"
    /\ run < MaxRuns
    /\ run' = run + 1
    /\ pc' = "main"
    /\ results' = <<>>
    /\ entries' = <<>>
    /\ idx' = 0
    /\ local' = NoLocal
    /\ trace' = <<>>
    /\ success_count' = 0
    /\ summary' = NoSummary
    /\ UNCHANGED <<store, clock>>
    /\ UNCHANGED <<parseVars, colorVars, harnessVars>>

Init ==
    /\ store \in [Ids -> InitPages]
    /\ clock = 1
    /\ pc = "main"
    /\ results = <<>>
    /\ entries = <<>>
    /\ idx = 0
    /\ local = NoLocal
    /\ trace = <<>>
    /\ success_count = 0
    /\ summary = NoSummary
    /\ run = 1
    /\ response_text = <<>>
    /\ parsed = "unset"
    /\ score = 0
    /\ score_color = "unset"
    /\ wb_est = EstGood
    /\ wb_count = [r \in Ids |-> 0]
    /\ wb_once = [r \in Ids |-> None]

Next ==
    \/ Refuse
    \/ \E ok \in BOOLEAN : Fetch(ok)
    \/ \E call \in DOMAIN Timeout : Block(call)
    \/ \E dl \in DownloadOutcomes : Extract(dl)
    \/ \E reply \in Replies : Analyze(reply)
    \/ \E outcome \in RenderOutcomes : Render(outcome)
    \/ \E outcome \in UpdateOutcomes : Update(outcome)
    \/ \E outcome \in SaveOutcomes : Save(outcome)
    \/ Return
    \/ NextRun

Spec == Init /\ [][Next]_vars

(***************************************************************************)
(* The JSON extraction of analyze_food_with_openai on every answer text of *)
(* at most MaxTextLen tokens.                                              *)
(***************************************************************************)
Texts == UNION {[1..n -> Tokens] : n \in 0..MaxTextLen}

IdleStore == [r \in Ids |-> PendingPage(<<"file">>)]

IdlePipeline(at) ==
    /\ clock = 1
    /\ pc = at
    /\ results = <<>>
    /\ entries = <<>>
    /\ idx = 0
    /\ local = NoLocal
    /\ trace = <<>>
    /\ success_count = 0
    /\ summary = NoSummary
    /\ run = 1

IdleHarness ==
    /\ wb_est = EstGood
    /\ wb_count = [r \in Ids |-> 0]
    /\ wb_once = [r \in Ids |-> None]

InitParse ==
    /\ store = IdleStore
    /\ IdlePipeline("parse")
    /\ response_text \in Texts
    /\ parsed = "unset"
    /\ score = 0
    /\ score_color = "unset"
    /\ IdleHarness

\* food_analyzer.py 198-216 on response_text
ParseResponse ==
    /\ parsed = "unset"
    /\ parsed' = IF ParseOk(response_text) THEN "object" ELSE "None"
    /\ UNCHANGED <<response_text, pipelineVars, colorVars, harnessVars>>

NextParse == ParseResponse

SpecParse == InitParse /\ [][NextParse]_vars

(***************************************************************************)
(* generate_score_color on every score of 0..MaxScore.                     *)
(***************************************************************************)
COLOR_PALETTE ==
    [primary |-> "#2DD4BF", secondary |-> "#F472B6", accent_1 |-> "#A78BFA",
     accent_2 |-> "#FBBF24", dark_bg |-> "#0F172A", light_bg |-> "#F8FAFC",
     text_dark |-> "#1E293B", text_light |-> "#64748B", success |-> "#10B981",
     warning |-> "#F97316"]

\* config_template.py: the palette entry the 'poor' band is documented with
PDF_COLOR_PALETTE_danger == "#EF4444"

FOOD_SCORE_THRESHOLDS == [excellent |-> 80, good |-> 60, fair |-> 40, poor |-> 0]

generate_score_color_exclusive(s) ==
    IF s > 80 THEN COLOR_PALETTE.success
    ELSE IF s > 60 THEN COLOR_PALETTE.accent_2
    ELSE IF s > 40 THEN COLOR_PALETTE.warning
    ELSE "#EF4444"

generate_score_color(s) ==
    IF s >= 80 THEN COLOR_PALETTE.success
    ELSE IF s >= 60 THEN COLOR_PALETTE.accent_2
    ELSE IF s >= 40 THEN COLOR_PALETTE.warning
    ELSE "#EF4444"

InitColor ==
    /\ store = IdleStore
    /\ IdlePipeline("color")
    /\ response_text = <<>>
    /\ parsed = "unset"
    /\ score \in 0..MaxScore
    /\ score_color = "unset"
    /\ IdleHarness

\* pdf_generator.py 182-183 on score
ScoreColor ==
    /\ score_color = "unset"
    /\ score_color' = generate_score_color(score)
    /\ UNCHANGED <<score, pipelineVars, parseVars, harnessVars>>

NextColor == ScoreColor

SpecColor == InitColor /\ [][NextColor]_vars

(***************************************************************************)
(* update_notion_entry called repeatedly with one estimate, MaxCalls calls  *)
(* in all; the clock starts at 1 and every call takes one tick.            *)
(***************************************************************************)
InitWriteBack ==
    /\ store \in [Ids -> InitPages]
    /\ IdlePipeline("writeback")
    /\ response_text = <<>>
    /\ parsed = "unset"
    /\ score = 0
    /\ score_color = "unset"
    /\ wb_est \in Estimates
    /\ wb_count = [r \in Ids |-> 0]
    /\ wb_once = [r \in Ids |-> None]

\* update_notion_entry(r, wb_est), 219-281
WriteBack(r, outcome) ==
    /\ clock <= MaxCalls
    /\ store' = [store EXCEPT ![r] = PageAfterUpdate(@, wb_est, clock, outcome)]
    /\ clock' = clock + 1
    /\ wb_count' = [wb_count EXCEPT ![r] = @ + 1]
    /\ wb_once' = IF wb_once[r] = None /\ outcome \in {"ok", "lost"}
                  THEN [wb_once EXCEPT ![r] = store'[r]]
                  ELSE wb_once
    /\ UNCHANGED <<pc, results, entries, idx, local, trace, success_count,
                   summary, run, wb_est>>
    /\ UNCHANGED <<parseVars, colorVars>>

NextWriteBack == \E r \in Ids, outcome \in UpdateOutcomes : WriteBack(r, outcome)

SpecWriteBack == InitWriteBack /\ [][NextWriteBack]_vars

(***************************************************************************)
(* Properties.                                                             *)
(***************************************************************************)
ProcessPcs == {"extract", "analyze", "render", "update", "save", "return"}

HasNoPhoto(properties) == properties["Meal Photo"] = <<>>

\* C1: no record of the query response whose 'AI Analysis Done' flag is true
\* is in the batch get_notion_database_items returns.
C1_CompletedNeverFetched ==
    \A i \in 1..Len(results) :
        IsChecked(results[i].properties) =>
            \A j \in 1..Len(entries) : entries[j].id # results[i].id

C1_Witness ==
    /\ pc = "extract"
    /\ entries # <<>>
    /\ \E i \in 1..Len(results) : IsChecked(results[i].properties)

\* C2: in every state of the store, a page whose completion flag is true
\* carries every nutrition field, and right after a write-back that the store
\* applied (answered or not) the fields are those of the estimate.
C2_CompleteHasData ==
    /\ \A r \in Ids : IsChecked(store[r]) => NutritionProps \subseteq DOMAIN store[r]
    /\ (pc \in {"save", "return"} /\ local.wb \in {"ok", "lost"}) =>
          LET page == store[entries[idx].id] IN
          /\ IsChecked(page)
          /\ page["KCal Count"] = get(local.analysis, "estimated_kcal", 0)
          /\ page["Carbs (g)"] = get(local.analysis, "carbs_g", 0)
          /\ page["Food Score"] = get(local.analysis, "food_score", 0)

C2_Witness ==
    /\ pc = "return"
    /\ local.wb = "lost"
    /\ local.analysis = EstOutOfRange
    /\ IsChecked(store[entries[idx].id])

\* C3: a page with no 'Meal Photo' file is never written back and never
\* marked complete: update_notion_entry is not called for it and the page
\* stays as it was.
C3_NoPhotoNeverWritten ==
    /\ \A r \in Ids : HasNoPhoto(store[r]) => store[r] = PendingPage(<<>>)
    /\ \A i \in 1..Len(entries) :
          HasNoPhoto(entries[i].properties) =>
              store[entries[i].id] = entries[i].properties
    /\ (pc \in ProcessPcs /\ HasNoPhoto(entries[idx].properties)) =>
          local.wb = "not_called"

C3_Witness ==
    /\ pc = "done"
    /\ \E i \in 1..Len(trace) :
          /\ HasNoPhoto(entries[i].properties)
          /\ trace[i].stage = "no_image"
          /\ ~trace[i].ret

\* C4: when process_food_entry returns for an entry whose analysis gave an
\* estimate, update_notion_entry was called with that estimate, whatever
\* generate_food_infographic did (document, None, exception).
C4_RenderNeverBlocksWriteBack ==
    (pc = "return" /\ TruthyDict(local.analysis)) =>
        /\ local.render \in RenderOutcomes
        /\ local.wb \in UpdateOutcomes
        /\ local.wb_arg = local.analysis

C4_Witness ==
    /\ pc = "return"
    /\ local.render = "raise"
    /\ local.wb = "ok"
    /\ local.ret

\* the value process_food_entry returns, from the steps of its own entry
OwnOutcome(l) ==
    /\ TruthyBytes(l.image_data)
    /\ TruthyDict(l.analysis)
    /\ l.wb = "ok"
    /\ (TruthyBytes(l.pdf_data) => l.saved)

Successes(t) == Cardinality({i \in 1..Len(t) : t[i].ret})

\* C5: main processes every entry of the batch in order, the value returned
\* for an entry depends on the steps of that entry only, no exception leaves
\* process_food_entry, and the run ends with its summary.
C5_FailureIsolation ==
    /\ pc # "raised"
    /\ (pc = "return") => (local.ret <=> OwnOutcome(local))
    /\ (pc \in ProcessPcs) =>
          /\ Len(trace) = idx - 1
          /\ \A i \in 1..Len(trace) : trace[i].id = entries[i].id
    /\ (pc = "done" /\ entries # <<>>) =>
          /\ Len(trace) = Len(entries)
          /\ \A i \in 1..Len(trace) : trace[i].id = entries[i].id
          /\ summary.msg = "Processing complete"
          /\ summary.succeeded = Successes(trace)

C5_Witness ==
    /\ pc = "done"
    /\ Len(trace) = 3
    /\ trace[1].stage = "except"
    /\ trace[2].stage = "no_analysis"
    /\ trace[3].ret

\* the batch of the end-to-end scenario: one entry without photo, one whose
\* analysis failed, one written back
Scenario3 ==
    /\ pc = "done"
    /\ Len(trace) = 3
    /\ \E a, b, c \in 1..3 :
          /\ HasNoPhoto(entries[a].properties)
          /\ trace[a].stage = "no_image"
          /\ trace[b].stage = "no_analysis"
          /\ trace[c].stage = "updated"
          /\ trace[c].ret

\* C6: in the end-to-end scenario the summary reports 1 succeeded of 2
\* attempted: the entry without photo is not counted.
C6_SummaryExcludesSkipped ==
    Scenario3 => (summary.succeeded = 1 /\ summary.total = 2)

InRange(analysis) ==
    /\ \A k \in NumericKeys : get(analysis, k, 0) >= 0
    /\ get(analysis, "food_score", 0) <= 100

\* C7: every estimate that is rendered or written back has all numeric
\* fields >= 0 and a score in 0..100, and so has every written page.
C7_EstimateInRange ==
    /\ (pc \in {"render", "update", "save"}) => InRange(local.analysis)
    /\ \A r \in Ids :
          "Food Score" \in DOMAIN store[r] =>
              /\ store[r]["Food Score"] \in 0..100
              /\ store[r]["KCal Count"] >= 0
              /\ store[r]["Protein (g)"] >= 0
              /\ store[r]["Carbs (g)"] >= 0
              /\ store[r]["Fat (g)"] >= 0

\* text without object and without fence
IsPlain(s) == \A i \in 1..Len(s) : s[i] \in {"T", "W", "J"}

IsBlank(s) == \A i \in 1..Len(s) : s[i] = "W"

\* one JSON object, bare or in a fenced block ``` ... ``` / ```json ... ```
IsJsonBlock(s) ==
    \/ s = <<"O">>
    \/ /\ Len(s) >= 3
       /\ s[1] = "F"
       /\ s[Len(s)] = "F"
       /\ \E i \in 2..(Len(s) - 1) :
             /\ s[i] = "O"
             /\ IsBlank(SubSeq(s, i + 1, Len(s) - 1))
             /\ \/ IsBlank(SubSeq(s, 2, i - 1))
                \/ s[2] = "J" /\ IsBlank(SubSeq(s, 3, i - 1))

\* preamble, one JSON object (fenced or not), postamble
IsWrappedObject(s) ==
    \E i \in 1..Len(s) : \E j \in i..Len(s) :
        /\ IsPlain(SubSeq(s, 1, i - 1))
        /\ IsJsonBlock(SubSeq(s, i, j))
        /\ IsPlain(SubSeq(s, j + 1, Len(s)))

\* C8: an answer that holds one JSON object, fenced or not, between an
\* unrelated preamble and postamble parses to that object.
C8_TolerantParsing ==
    (parsed # "unset" /\ IsWrappedObject(response_text)) => parsed = "object"

\* C9: the colour of the score badge follows FOOD_SCORE_THRESHOLDS with
\* lower-inclusive boundaries, for every score of 0..MaxScore.
C9_ScoreColorThresholds ==
    score_color # "unset" =>
        /\ score_color = COLOR_PALETTE.success
              <=> score >= FOOD_SCORE_THRESHOLDS.excellent
        /\ score_color = COLOR_PALETTE.accent_2
              <=> (score >= FOOD_SCORE_THRESHOLDS.good
                   /\ score < FOOD_SCORE_THRESHOLDS.excellent)
        /\ score_color = COLOR_PALETTE.warning
              <=> (score >= FOOD_SCORE_THRESHOLDS.fair
                   /\ score < FOOD_SCORE_THRESHOLDS.good)
        /\ score_color = PDF_COLOR_PALETTE_danger
              <=> score < FOOD_SCORE_THRESHOLDS.fair

C9_Witness == score = 40 /\ score_color = COLOR_PALETTE.warning

\* C10 as stated: after update_notion_entry was applied to a page with the
\* estimate, any further call with the same estimate leaves the page, the
\* analysis timestamp included, as the first call left it.
C10_IdempotentAllFields ==
    \A r \in Ids : wb_once[r] # None => store[r] = wb_once[r]

\* C10 amended: every property but 'Analysis DateTime' is as the first call
\* left it; 'Analysis DateTime' is the time of the latest applied call.
C10_IdempotentButTimestamp ==
    \A r \in Ids :
        wb_once[r] # None =>
            /\ DOMAIN store[r] = DOMAIN wb_once[r]
            /\ \A k \in DOMAIN store[r] \ {"Analysis DateTime"} :
                  store[r][k] = wb_once[r][k]
            /\ store[r]["Analysis DateTime"] >= wb_once[r]["Analysis DateTime"]
            /\ store[r]["Analysis DateTime"] < clock

C10_Witness ==
    \E r \in Ids :
        /\ wb_count[r] >= 2
        /\ wb_once[r] # None
        /\ store[r]["Analysis DateTime"] > wb_once[r]["Analysis DateTime"]


\* the result process_food_entry reported for entry i of the batch: the value
\* it returned and the place it returned from (its log line)
Reported(i) == <<trace[i].ret, trace[i].stage>>

\* entry i had no photo attached
Skipped(i) == HasNoPhoto(entries[i].properties) /\ trace[i].stage = "no_image"

\* entry j had an uploaded photo and its download failed
DownloadFailed(j) ==
    /\ ~HasNoPhoto(entries[j].properties)
    /\ entries[j].properties["Meal Photo"][1] = "file"
    /\ trace[j].stage = "no_image"

AnalysisFailed(j) == trace[j].stage = "no_analysis"

\* C11: an entry without photo is reported differently from an entry whose
\* photo download failed or whose analysis failed, by the value
\* process_food_entry returns and so by the run summary.
C11_SkippedDistinctFromFailed ==
    pc = "done" =>
        \A i, j \in 1..Len(trace) :
            (Skipped(i) /\ (DownloadFailed(j) \/ AnalysisFailed(j))) =>
                /\ Reported(i) # Reported(j)
                /\ trace[i].ret # trace[j].ret


\* the page was written back at some time
IsWritten(properties) == "Analysis DateTime" \in DOMAIN properties

\* no entry that the run still has to work on was ever written back
PendingNeverWritten ==
    /\ (pc \in {"extract", "analyze", "render", "update"}) =>
          ~IsWritten(store[entries[idx].id])
    /\ (pc \in ProcessPcs) =>
          \A j \in (idx + 1)..Len(entries) : ~IsWritten(store[entries[j].id])

\* C12 as stated: no run works on a record that was written back before, and
\* a record whose write-back failed (update_notion_entry returned False)
\* stays pending.
C12_FailedStaysPending ==
    /\ PendingNeverWritten
    /\ (pc = "return" /\ local.wb \in {"error", "lost"}) =>
          ~IsChecked(store[entries[idx].id])

\* a written page is never changed again
WrittenIsFinal == \A r \in Ids : IsWritten(store[r]) => store'[r] = store[r]

\* C12 amended: a page is written at most once and no run works on a written
\* page; a page whose patch the store did not apply stays as it was, pending;
\* a page whose patch was applied while the answer was lost is complete
\* although update_notion_entry returned False.
C12_WrittenAtMostOnce ==
    /\ [](/\ PendingNeverWritten
          /\ (pc = "return" /\ local.wb = "error") =>
                /\ store[entries[idx].id] = entries[idx].properties
                /\ ~IsChecked(store[entries[idx].id])
          /\ (pc = "return" /\ local.wb \in {"ok", "lost"}) =>
                IsChecked(store[entries[idx].id]))
    /\ [][WrittenIsFinal]_vars

C12_Witness ==
    /\ run >= 2
    /\ pc = "return"
    /\ local.wb = "ok"
    /\ \E r \in Ids :
          /\ IsWritten(store[r])
          /\ store[r]["Analysis DateTime"] > 0
          /\ store[r]["Analysis DateTime"] < clock - 1
          /\ \A j \in 1..Len(entries) : entries[j].id # r


\* C13: a failed store query gives an empty batch and main ends the run as
\* 'nothing to do': no download, model call or write-back, every record
\* unchanged, exit code 0.
C13_FetchFailureIsNothingToDo ==
    /\ [][Fetch(FALSE) =>
            /\ entries' = <<>>
            /\ pc' = "done"
            /\ ExitCodeOf(pc') = 0
            /\ summary'.msg = "No new entries to process"
            /\ store' = store
            /\ local' = NoLocal
            /\ trace' = <<>>]_vars
    /\ []((pc = "done" /\ entries = <<>>) =>
            (trace = <<>> /\ local = NoLocal /\ success_count = 0))

C13_Witness ==
    /\ pc = "done"
    /\ results = <<>>
    /\ entries = <<>>
    /\ summary.msg = "No new entries to process"
    /\ \E r \in Ids : store[r] = PendingPage(<<"file">>)

\* C14: no run is left waiting without bound in an external call: every run
\* reaches its end.
C14_NoCallBlocksForever == pc # "blocked"


\* C15: whenever update_notion_entry succeeded for an entry,
\* process_food_entry returns True, whatever the artifact step does.
C15_WriteBackSuccessIsSuccess ==
    (pc = "return" /\ local.wb = "ok") => local.ret

(***************************************************************************)
(* The store query on a database of PageSize + 1 pages, each pending or    *)
(* written back.                                                           *)
(***************************************************************************)
InitFetch ==
    /\ store \in [1..(PageSize + 1) -> {PendingPage(<<"file">>), DonePage}]
    /\ IdlePipeline("main")
    /\ response_text = <<>>
    /\ parsed = "unset"
    /\ score = 0
    /\ score_color = "unset"
    /\ IdleHarness

NextFetch == \E ok \in BOOLEAN : Fetch(ok)

SpecFetch == InitFetch /\ [][NextFetch]_vars

\* C16: whenever the store holds a pending record and the query succeeds,
\* the batch get_notion_database_items returns is not empty, however many
\* completed records the store holds.
C16_NoPendingStarved ==
    (/\ pc # "main"
     /\ results # <<>>
     /\ \E r \in DOMAIN store : ~IsChecked(store[r])) => entries # <<>>

\* C17: within process_food_entry the model is called only with an image,
\* update_notion_entry is called only with an estimate, an entry whose
\* download or analysis failed is not written back nor marked complete, and
\* the artifact is saved only after a successful write-back of a rendered
\* document.
C17_StepOrder ==
    /\ (pc \in {"analyze", "render", "update", "save"}) =>
          local.image_data = "bytes"
    /\ (pc = "return" /\ local.stage # "no_image") =>
          local.image_data = "bytes"
    /\ (pc \in {"render", "update", "save"}) => local.analysis \in Estimates
    /\ (pc \in ProcessPcs /\ local.wb # "not_called") =>
          /\ local.analysis \in Estimates
          /\ local.wb_arg = local.analysis
    /\ (pc = "return" /\ local.stage \in {"no_image", "no_analysis"}) =>
          /\ local.wb = "not_called"
          /\ store[entries[idx].id] = entries[idx].properties
          /\ ~IsChecked(store[entries[idx].id])
    /\ (pc = "save" \/ (pc \in ProcessPcs /\ local.saved)) =>
          /\ local.wb = "ok"
          /\ local.render = "doc"
          /\ local.pdf_data = "pdf"

C17_Witness ==
    /\ pc = "return"
    /\ local.saved
    /\ local.ret
    /\ IsChecked(store[entries[idx].id])

====
